---- MODULE Spec2Model ----
(* PagePool (src/src/pagepool.ts): a pool of browser pages on which jobs are   *)
(* run in batches.  The pool runs on one JavaScript thread: every action below *)
(* is the code that runs between two suspension points (await) of a method.    *)
EXTENDS Integers, Sequences, FiniteSets, TLC

(* ---- bounds ---- *)
MaxJobs == 2                 \* jobs the caller adds that the pool stores
MaxDropped == 1              \* jobs the caller adds that the pool drops
MaxNewPages == 3             \* page handles ctx.newPage() hands out in total

(* ---- values ---- *)
Undefined == "undefined"
Responses == {"a", "b"}            \* network responses a page may see
Matchers == {Undefined, "isA"}     \* job.matcher: absent, or a predicate accepting response "a"
NoPage == 0                        \* this.pages[idx] when idx is past the end of pages
Counts == {0, 1, 2}                \* the counts the caller gives to setPages

\* What a page does for one job sequence: whether the navigation succeeds, which
\* responses arrive before the timeout, whether the body of the response parses.
\* (Nothing arrives when the navigation fails; nothing is parsed when nothing arrives.)
PageRuns ==
  {r \in [navigated : BOOLEAN, arrived : SUBSET Responses, parsed : BOOLEAN] :
     /\ ~r.navigated => r.arrived = {}
     /\ r.arrived = {} => ~r.parsed}

VARIABLES
  isDestroyed,      \* PagePool.isDestroyed
  pages,            \* PagePool.pages: sequence of page handles (a handle is a number)
  jobs,             \* PagePool.jobs: sequence of jobs
  queuedJobs,       \* PagePool.queuedJobs
  newPageCount,     \* ctx: number of ctx.newPage() calls made so far
  jobCount,         \* caller: number of addJob calls made so far (a job's id is its arrival number)
  setPagesAwait,    \* suspended setPages calls (line 67): the pages each one is acquiring
  executeAwait,     \* suspended execute calls (line 95): [top, executableJobs]
  destroyAwait,     \* suspended destroy calls (line 105): [closing, failed]
  started,          \* history: [id, batch, begun] of every job sequence started, in order
  closeCalled,      \* history: pages on which page.close() has been called
  dropped,          \* history: ids of the jobs addJob returned without storing
  destroyReturned,  \* history: a destroy() has had its promise resolved
  lastStep          \* how the last step ended, when it was a return, a throw or an early return

vars == <<isDestroyed, pages, jobs, queuedJobs, newPageCount, jobCount, setPagesAwait,
          executeAwait, destroyAwait, started, closeCalled, dropped, destroyReturned,
          lastStep>>

Range(s) == {s[i] : i \in 1..Len(s)}

RemoveAt(s, k) == [i \in 1..(Len(s) - 1) |-> IF i < k THEN s[i] ELSE s[i + 1]]

(* ---- private helpers of PagePool ---- *)
getMaxExecutableJob == Len(pages)

hasNoPages == Len(pages) = 0

hasNoJobs == Len(jobs) = 0

\* A variant of line 54 that keeps the last slot free.
canAddNewJobKeepingOneFree == Len(jobs) + 1 < getMaxExecutableJob

canAddNewJob == Len(jobs) < getMaxExecutableJob

(* ---- Promise combinators over promise states "pending", "fulfilled", "rejected" ---- *)
PromiseAll(states) ==
  IF "rejected" \in states THEN "rejected"
  ELSE IF "pending" \in states THEN "pending"
  ELSE "fulfilled"

PromiseAllSettled(states) ==
  IF "pending" \in states THEN "pending" ELSE "fulfilled"

Init ==
  /\ isDestroyed = FALSE
  /\ pages = <<>>
  /\ jobs = <<>>
  /\ queuedJobs = <<>>
  /\ newPageCount = 0
  /\ jobCount = 0
  /\ setPagesAwait = <<>>
  /\ executeAwait = <<>>
  /\ destroyAwait = <<>>
  /\ started = <<>>
  /\ closeCalled = {}
  /\ dropped = {}
  /\ destroyReturned = FALSE
  /\ lastStep = "none"

(* ---- setPages(count) ---- *)
\* A variant of line 58 that forgets the jobs in flight.
setPagesRejectsWhenDestroyed == isDestroyed

\* line 58
setPagesRejects == isDestroyed \/ ~hasNoJobs

\* lines 57-67: the guard, then count calls of ctx.newPage(), then the await.
SetPagesCall(count) ==
  /\ IF setPagesRejects
       THEN /\ lastStep' = "setPages.ignored"
            /\ UNCHANGED <<newPageCount, setPagesAwait>>
       ELSE /\ lastStep' = "none"
            /\ newPageCount' = newPageCount + count
            /\ setPagesAwait' =
                 Append(setPagesAwait, [i \in 1..count |-> newPageCount + i])
  /\ UNCHANGED <<isDestroyed, pages, jobs, queuedJobs, jobCount, executeAwait,
                 destroyAwait, started, closeCalled, dropped, destroyReturned>>

\* The promise of line 67: Promise.all over the newPage() promises, every one of
\* which is fulfilled (ctx.newPage() is taken to succeed).
newPagesJoin(acquiring) ==
  PromiseAll({"fulfilled" : p \in Range(acquiring)})

\* lines 67-69: the await returns and this.pages is assigned.
SetPagesResume(k) ==
  /\ k \in 1..Len(setPagesAwait)
  /\ newPagesJoin(setPagesAwait[k]) = "fulfilled"
  /\ setPagesAwait' = RemoveAt(setPagesAwait, k)
  /\ pages' = setPagesAwait[k]
  /\ lastStep' = "none"
  /\ UNCHANGED <<isDestroyed, jobs, queuedJobs, newPageCount, jobCount, executeAwait,
                 destroyAwait, started, closeCalled, dropped, destroyReturned>>

(* ---- addJob(job) ---- *)
\* A variant of lines 73-86 without the check of lines 77-79.
addJobTargetWithoutPages ==
  IF isDestroyed THEN "nowhere"
  ELSE IF canAddNewJob THEN "jobs"
  ELSE "queuedJobs"

\* lines 73-86: where addJob puts the job
addJobTarget ==
  IF isDestroyed THEN "nowhere"
  ELSE IF hasNoPages THEN "nowhere"
  ELSE IF canAddNewJob THEN "jobs"
  ELSE "queuedJobs"

\* A variant of lines 72-88 with unshift for push.
AddJobAtHead(matcher) ==
  /\ jobCount' = jobCount + 1
  /\ lastStep' = "none"
  /\ LET job == [id |-> jobCount + 1, matcher |-> matcher] IN
       /\ jobs' = IF addJobTarget = "jobs" THEN <<job>> \o jobs ELSE jobs
       /\ queuedJobs' =
            IF addJobTarget = "queuedJobs" THEN <<job>> \o queuedJobs ELSE queuedJobs
       /\ dropped' = IF addJobTarget = "nowhere" THEN dropped \cup {job.id} ELSE dropped
  /\ UNCHANGED <<isDestroyed, pages, newPageCount, setPagesAwait, executeAwait,
                 destroyAwait, started, closeCalled, destroyReturned>>

\* lines 72-88; the job is the jobCount+1-th the caller hands over
AddJob(matcher) ==
  /\ jobCount' = jobCount + 1
  /\ lastStep' = "none"
  /\ LET job == [id |-> jobCount + 1, matcher |-> matcher] IN
       /\ jobs' = IF addJobTarget = "jobs" THEN Append(jobs, job) ELSE jobs
       /\ queuedJobs' =
            IF addJobTarget = "queuedJobs" THEN Append(queuedJobs, job) ELSE queuedJobs
       /\ dropped' = IF addJobTarget = "nowhere" THEN dropped \cup {job.id} ELSE dropped
  /\ UNCHANGED <<isDestroyed, pages, newPageCount, setPagesAwait, executeAwait,
                 destroyAwait, started, closeCalled, destroyReturned>>

(* ---- the job sequence of executeJobs, lines 117-126 ---- *)
\* line 120: the predicate handed to page.waitForResponse
waitPredicate(job, r) ==
  IF job.matcher = Undefined THEN FALSE ELSE r = "a"

\* A variant of line 118 that reads the first page whatever the position is.
startSequenceOnFirstPage(job, idx) ==
  LET page == IF 1 <= Len(pages) THEN pages[1] ELSE NoPage IN
    [job |-> job, page |-> page,
     state |-> IF page = NoPage THEN "rejected" ELSE "pending",
     completed |-> FALSE]

\* lines 118-122, run when the batch starts: the page is read by position, the
\* response wait and the navigation are begun.  Reading waitForResponse of an
\* undefined page throws, which rejects the sequence's promise at once.
startSequence(job, idx) ==
  LET page == IF idx <= Len(pages) THEN pages[idx] ELSE NoPage IN
    [job |-> job, page |-> page,
     state |-> IF page = NoPage THEN "rejected" ELSE "pending",
     completed |-> FALSE]

\* lines 122-124: what makes the sequence of job throw, given what its page does
failureOf(job, run) ==
  IF ~run.navigated THEN "navigation"
  ELSE IF ~(\E r \in run.arrived : waitPredicate(job, r)) THEN "timeout"
  ELSE IF ~run.parsed THEN "parse"
  ELSE "none"

\* lines 122-125: await goto, await the response, await json(), call onComplete.
finishSequence(seq, run) ==
  LET failure == failureOf(seq.job, run) IN
    [seq EXCEPT !.state = IF failure = "none" THEN "fulfilled" ELSE "rejected",
                !.completed = (failure = "none")]

\* line 117: this.jobs.map(async (job, idx) => ...)
startBatch(js) == [i \in 1..Len(js) |-> startSequence(js[i], i)]

batchCount == Cardinality({started[i].batch : i \in 1..Len(started)})

\* the history entries of a batch that starts with the jobs js
startedBatch(js) ==
  [i \in 1..Len(js) |->
     [id |-> js[i].id, batch |-> batchCount + 1,
      begun |-> startSequence(js[i], i).page # NoPage]]

\* A variant of line 128 with Promise.all for Promise.allSettled.
executeJobsJoinAll(executableJobs) ==
  PromiseAll({executableJobs[i].state : i \in 1..Len(executableJobs)})

\* line 128: the promise execute() awaits for its batch
executeJobsJoin(executableJobs) ==
  PromiseAllSettled({executableJobs[i].state : i \in 1..Len(executableJobs)})

\* One job sequence of a batch in flight runs to its end.
SettleSequence(k, i, run) ==
  /\ k \in 1..Len(executeAwait)
  /\ i \in 1..Len(executeAwait[k].executableJobs)
  /\ executeAwait[k].executableJobs[i].state = "pending"
  /\ executeAwait' =
       [executeAwait EXCEPT ![k].executableJobs[i] =
          finishSequence(executeAwait[k].executableJobs[i], run)]
  /\ lastStep' = "none"
  /\ UNCHANGED <<isDestroyed, pages, jobs, queuedJobs, newPageCount, jobCount,
                 setPagesAwait, destroyAwait, started, closeCalled, dropped,
                 destroyReturned>>

(* ---- execute() ---- *)
\* A variant of line 91 without the check of the pages.
executeReturnsEarlyWithoutPagesCheck(js) == isDestroyed \/ Len(js) = 0

\* A variant of line 91 without the check of the flag.
executeReturnsEarlyWhenNotDestroyed(js) == Len(js) = 0 \/ hasNoPages

\* line 91, with js for this.jobs
executeReturnsEarlyWith(js) == isDestroyed \/ Len(js) = 0 \/ hasNoPages

executeReturnsEarly == executeReturnsEarlyWith(jobs)

\* lines 90-95 called by the caller: the guard, then executeJobs up to its await.
ExecuteCall ==
  /\ IF executeReturnsEarly
       THEN /\ lastStep' = "execute.ignored"
            /\ UNCHANGED <<started, executeAwait>>
       ELSE /\ lastStep' = "none"
            /\ started' = started \o startedBatch(jobs)
            /\ executeAwait' =
                 Append(executeAwait, [top |-> TRUE, executableJobs |-> startBatch(jobs)])
  /\ UNCHANGED <<isDestroyed, pages, jobs, queuedJobs, newPageCount, jobCount,
                 setPagesAwait, destroyAwait, closeCalled, dropped, destroyReturned>>

\* lines 131-146: the loop of prepareForNextJobs, from i with js and q as they are then
RECURSIVE prepareLoop(_, _, _)
prepareLoop(i, js, q) ==
  IF i < getMaxExecutableJob /\ q # <<>>
    THEN prepareLoop(i + 1, Append(js, Head(q)), Tail(q))
    ELSE [jobs |-> js, queuedJobs |-> q]

\* A variant that takes the next job from the tail of queuedJobs (pop for shift).
RECURSIVE prepareLoopFromTail(_, _, _)
prepareLoopFromTail(i, js, q) ==
  IF i < getMaxExecutableJob /\ q # <<>>
    THEN prepareLoopFromTail(i + 1, Append(js, q[Len(q)]), SubSeq(q, 1, Len(q) - 1))
    ELSE [jobs |-> js, queuedJobs |-> q]

prepareForNextJobsFromTail == prepareLoopFromTail(0, <<>>, queuedJobs)

prepareForNextJobs == prepareLoop(0, <<>>, queuedJobs)

\* lines 95-98: the await of executeJobs returns; prepareForNextJobs; and when it
\* returns true, execute() is called again (not awaited) and runs up to its await.
ExecuteResume(k) ==
  /\ k \in 1..Len(executeAwait)
  /\ executeJobsJoin(executeAwait[k].executableJobs) # "pending"
  /\ IF executeJobsJoin(executeAwait[k].executableJobs) = "rejected"
       THEN /\ lastStep' = IF executeAwait[k].top THEN "execute.threw" ELSE "none"
            /\ executeAwait' = RemoveAt(executeAwait, k)
            /\ UNCHANGED <<jobs, queuedJobs, started>>
       ELSE LET next == prepareForNextJobs IN
            /\ jobs' = next.jobs
            /\ queuedJobs' = next.queuedJobs
            /\ lastStep' = IF executeAwait[k].top THEN "execute.returned" ELSE "none"
            /\ IF next.jobs # <<>> /\ ~executeReturnsEarlyWith(next.jobs)
                 THEN /\ started' = started \o startedBatch(next.jobs)
                      /\ executeAwait' =
                           Append(RemoveAt(executeAwait, k),
                                  [top |-> FALSE, executableJobs |-> startBatch(next.jobs)])
                 ELSE /\ executeAwait' = RemoveAt(executeAwait, k)
                      /\ UNCHANGED started
  /\ UNCHANGED <<isDestroyed, pages, newPageCount, jobCount, setPagesAwait,
                 destroyAwait, closeCalled, dropped, destroyReturned>>

(* ---- destroy() ---- *)
\* A variant of line 105 with Promise.all for Promise.allSettled.
closeJoinAll(closing, failed) ==
  PromiseAll({IF p \in failed THEN "rejected" ELSE "fulfilled" : p \in closing})

\* line 105: the promise destroy() awaits
closeJoin(closing, failed) ==
  PromiseAllSettled({IF p \in failed THEN "rejected" ELSE "fulfilled" : p \in closing})

\* lines 101-105: the flag is set, close() is called on every page, then the await.
DestroyCall(failed) ==
  /\ failed \subseteq Range(pages)
  /\ isDestroyed' = TRUE
  /\ closeCalled' = closeCalled \cup Range(pages)
  /\ destroyAwait' = Append(destroyAwait, [closing |-> Range(pages), failed |-> failed])
  /\ lastStep' = "none"
  /\ UNCHANGED <<pages, jobs, queuedJobs, newPageCount, jobCount, setPagesAwait,
                 executeAwait, started, dropped, destroyReturned>>

\* lines 105-108: the await returns and both job lists are emptied.
DestroyResume(k) ==
  /\ k \in 1..Len(destroyAwait)
  /\ destroyAwait' = RemoveAt(destroyAwait, k)
  /\ IF closeJoin(destroyAwait[k].closing, destroyAwait[k].failed) = "fulfilled"
       THEN /\ jobs' = <<>>
            /\ queuedJobs' = <<>>
            /\ destroyReturned' = TRUE
            /\ lastStep' = IF destroyAwait[k].failed = {} THEN "destroy.returned"
                           ELSE "destroy.returned.closeFailed"
       ELSE /\ lastStep' = "destroy.threw"
            /\ UNCHANGED <<jobs, queuedJobs, destroyReturned>>
  /\ UNCHANGED <<isDestroyed, pages, newPageCount, jobCount, setPagesAwait,
                 executeAwait, started, closeCalled, dropped>>

(* ---- the internal steps: a suspended call goes on ---- *)
SetPagesDone == \E k \in 1..Len(setPagesAwait) : SetPagesResume(k)

ExecuteDone == \E k \in 1..Len(executeAwait) : ExecuteResume(k)

Settle ==
  \E k \in 1..Len(executeAwait) : \E i \in 1..Len(executeAwait[k].executableJobs) :
    \E run \in PageRuns : SettleSequence(k, i, run)

DestroyDone == \E k \in 1..Len(destroyAwait) : DestroyResume(k)

(* ---- Spec: a caller that lets execute() drain before it calls execute() again ---- *)
\* The caller calls setPages, addJob and destroy at any time, also while a
\* setPages, a destroy or a batch is in flight; it has at most one setPages and
\* at most one destroy suspended at a time.
SetPages ==
  /\ setPagesAwait = <<>>
  /\ \E count \in Counts : newPageCount + count <= MaxNewPages /\ SetPagesCall(count)

Add ==
  /\ IF isDestroyed \/ hasNoPages
       THEN Cardinality(dropped) < MaxDropped
       ELSE jobCount - Cardinality(dropped) < MaxJobs
  /\ \E matcher \in Matchers : AddJob(matcher)

Execute == executeAwait = <<>> /\ ExecuteCall

Destroy == destroyAwait = <<>> /\ \E failed \in SUBSET Range(pages) : DestroyCall(failed)

Next ==
  \/ SetPages
  \/ SetPagesDone
  \/ Add
  \/ Execute
  \/ ExecuteDone
  \/ Settle
  \/ Destroy
  \/ DestroyDone

Spec == Init /\ [][Next]_vars

(* ---- SpecOverlap: a caller that calls execute() while batches are in flight ---- *)
\* The pool is not destroyed, and the caller stops calling execute() once one job
\* sequence more than there are jobs has been started.
ExecuteAgain == Len(started) + Len(jobs) <= MaxJobs + 1 /\ ExecuteCall

NextOverlap ==
  \/ SetPages
  \/ SetPagesDone
  \/ Add
  \/ ExecuteAgain
  \/ ExecuteDone
  \/ Settle

SpecOverlap == Init /\ [][NextOverlap]_vars

(* ---- SpecDrain: a caller that sets the pages, adds its jobs, calls execute() once ---- *)
\* Every call is made when no call is suspended, and nothing is called after execute().
executeCalled == started # <<>> \/ lastStep = "execute.ignored"

DrainSetPages == ~executeCalled /\ SetPages

DrainAdd ==
  /\ ~executeCalled
  /\ setPagesAwait = <<>>
  /\ jobCount < MaxJobs + 1
  /\ \E matcher \in Matchers : AddJob(matcher)

DrainExecute == ~executeCalled /\ setPagesAwait = <<>> /\ ExecuteCall

NextDrain ==
  \/ DrainSetPages
  \/ SetPagesDone
  \/ DrainAdd
  \/ DrainExecute
  \/ ExecuteDone
  \/ Settle

SpecDrain == Init /\ [][NextDrain]_vars

(* ======================= the claims ======================= *)
\* The jobs addJob stored, and the n-th of them in arrival order.
accepted == (1..jobCount) \ dropped

nthAccepted(n) == CHOOSE j \in accepted : Cardinality({x \in accepted : x < j}) = n - 1

batchSize(b) == Cardinality({i \in 1..Len(started) : started[i].batch = b})

\* C1: with M > N jobs stored before the one execute() call of a pool of N >= 1
\* pages, the first batch is the first N jobs in arrival order, the others are
\* started in later batches in arrival order (the i-th sequence started is the
\* i-th job stored, batch numbers never decrease), no batch has more than N jobs,
\* and when the drain is over every one of the M jobs has been started.
C1_FifoBatches ==
  (started # <<>> /\ Cardinality(accepted) > Len(pages)) =>
    /\ Len(pages) >= 1
    /\ Len(started) <= Cardinality(accepted)
    /\ \A i \in 1..Len(started) : started[i].id = nthAccepted(i)
    /\ \A i \in 1..Len(started) : started[i].batch = 1 <=> i <= Len(pages)
    /\ \A i \in 1..(Len(started) - 1) : started[i].batch <= started[i + 1].batch
    /\ \A i \in 1..Len(started) : batchSize(started[i].batch) <= Len(pages)
    /\ executeAwait = <<>> => Len(started) = Cardinality(accepted)

\* C1 witness: three jobs were stored by a pool with fewer pages, and the drain is over.
C1_Witness ==
  /\ Cardinality(accepted) >= 3
  /\ Cardinality(accepted) > Len(pages)
  /\ Len(started) = Cardinality(accepted)
  /\ executeAwait = <<>>

\* C2: when the promise of the caller's execute() resolves, no job is left in
\* jobs or queuedJobs, no job sequence is in flight and every stored job has been
\* started.
C2_ExecuteReturnsDrained ==
  lastStep = "execute.returned" =>
    /\ jobs = <<>>
    /\ queuedJobs = <<>>
    /\ executeAwait = <<>>
    /\ \A j \in accepted : \E i \in 1..Len(started) : started[i].id = j

\* The number of sequences in flight of job id whose onComplete has been called.
completions(id) ==
  Cardinality({<<k, i>> \in (1..Len(executeAwait)) \X (1..(MaxJobs + 1)) :
     /\ i <= Len(executeAwait[k].executableJobs)
     /\ executeAwait[k].executableJobs[i].job.id = id
     /\ executeAwait[k].executableJobs[i].completed})

\* C3: the navigate-and-wait sequence of a job is started at most once, and its
\* onComplete is called at most once.
C3_StartedAtMostOnce ==
  \A id \in 1..jobCount :
    /\ Cardinality({i \in 1..Len(started) : started[i].id = id /\ started[i].begun}) <= 1
    /\ completions(id) <= 1

\* C4: there are never more active jobs than pages.
C4_JobsWithinPages == Len(jobs) <= Len(pages)

\* C5: every step that changes pages is taken in a state where jobs is empty and
\* the pool is not destroyed.
C5_PagesChangeOnlyWhenSafe ==
  [][pages' # pages => (jobs = <<>> /\ ~isDestroyed)]_vars

ids(js) == {js[i].id : i \in 1..Len(js)}

sequenceIds(batch) == {batch[i].job.id : i \in 1..Len(batch)}

\* C6: a setPages(count) call made while jobs is not empty or the pool is
\* destroyed changes neither pages, jobs, queuedJobs nor isDestroyed, acquires no
\* page, suspends nothing and returns without an error, whatever count is.
C6_SetPagesIgnored ==
  [][\A count \in Counts :
       ((isDestroyed \/ jobs # <<>>) /\ SetPagesCall(count)) =>
         /\ UNCHANGED <<pages, jobs, queuedJobs, isDestroyed>>
         /\ UNCHANGED <<newPageCount, setPagesAwait>>
         /\ lastStep' = "setPages.ignored"]_vars

\* C6 witness: setPages has just returned at its guard because a job is active.
C6_Witness == lastStep = "setPages.ignored" /\ jobs # <<>> /\ ~isDestroyed

\* C7: an addJob call made while the pool has no page or is destroyed leaves jobs,
\* queuedJobs, pages and isDestroyed as they are, and the job is never in a list
\* nor started afterwards; an addJob call made while the pool has a page and is
\* not destroyed stores the job in jobs or in queuedJobs.
C7_AddJobDropsOrStores ==
  /\ [](\A d \in dropped :
          /\ d \notin ids(jobs) \cup ids(queuedJobs)
          /\ \A i \in 1..Len(started) : started[i].id # d
          /\ \A k \in 1..Len(executeAwait) : d \notin sequenceIds(executeAwait[k].executableJobs))
  /\ [][\A matcher \in Matchers :
          /\ ((isDestroyed \/ pages = <<>>) /\ AddJob(matcher)) =>
               /\ UNCHANGED <<jobs, queuedJobs, pages, isDestroyed>>
               /\ jobCount + 1 \in dropped'
          /\ ((~isDestroyed /\ pages # <<>>) /\ AddJob(matcher)) =>
               /\ jobCount + 1 \in ids(jobs') \cup ids(queuedJobs')
               /\ jobCount + 1 \notin dropped']_vars

\* C7 witness: a job was dropped by a pool without pages, the pool was then given
\* pages, and a job added later is stored.
C7_Witness ==
  /\ ~isDestroyed
  /\ \E d \in dropped : \E j \in ids(jobs) : d < j
  /\ \A d \in dropped : \A i \in 1..Len(started) : started[i].id # d

\* C8: once a destroy() has returned, isDestroyed stays true, jobs and queuedJobs
\* stay empty and pages never changes.
C8_InertAfterDestroy ==
  /\ [](destroyReturned => (isDestroyed /\ jobs = <<>> /\ queuedJobs = <<>>))
  /\ [][destroyReturned => (destroyReturned' /\ pages' = pages)]_vars

\* C9: destroy() calls close on every page of pages, whichever of the closes
\* fail; a suspended destroy() can always go on, and when it does it returns
\* without an error, with the pool destroyed and jobs and queuedJobs empty.
C9_DestroyCompletes ==
  /\ [](destroyAwait # <<>> => ENABLED DestroyDone)
  /\ [](lastStep # "destroy.threw")
  /\ [][/\ \A failed \in SUBSET Range(pages) :
            DestroyCall(failed) => (isDestroyed' /\ Range(pages) \subseteq closeCalled')
        /\ \A k \in 1..Len(destroyAwait) :
            DestroyResume(k) =>
              /\ lastStep' \in {"destroy.returned", "destroy.returned.closeFailed"}
              /\ destroyReturned' /\ isDestroyed'
              /\ jobs' = <<>> /\ queuedJobs' = <<>>
              /\ destroyAwait[k].closing \subseteq closeCalled']_vars

\* C9 witness: a destroy() has just returned although the close of a page failed,
\* and close was called on two pages.
C9_Witness ==
  /\ lastStep = "destroy.returned.closeFailed"
  /\ Cardinality(closeCalled) >= 2
  /\ isDestroyed /\ jobs = <<>> /\ queuedJobs = <<>>

allSequences ==
  {<<k, i>> \in (1..Len(executeAwait)) \X (1..(MaxJobs + 1)) :
     i <= Len(executeAwait[k].executableJobs)}

\* C10: when a job sequence ends (the step that settles it changes executeAwait
\* alone), onComplete of its job is called exactly when its navigation, its
\* response wait and the parsing all succeeded, and every other sequence is left
\* as it is; a failed sequence never has its onComplete called; execute() goes on
\* only when every sequence of its batch has settled, and never throws.
C10_FailureIsolated ==
  /\ [](lastStep # "execute.threw")
  /\ [](\A s \in allSequences :
          LET seq == executeAwait[s[1]].executableJobs[s[2]] IN
            seq.completed <=> seq.state = "fulfilled")
  /\ [][/\ (/\ executeAwait' # executeAwait
            /\ Len(executeAwait') = Len(executeAwait)
            /\ started' = started) =>
             \E s \in allSequences :
               LET old == executeAwait[s[1]].executableJobs[s[2]]
                   new == executeAwait'[s[1]].executableJobs[s[2]]
               IN /\ old.state = "pending" /\ new.state # "pending"
                  /\ \A t \in allSequences \ {s} :
                       executeAwait'[t[1]].executableJobs[t[2]] =
                         executeAwait[t[1]].executableJobs[t[2]]
                  /\ \A run \in PageRuns :
                       new = finishSequence(old, run) =>
                         new.completed =
                           (/\ run.navigated
                            /\ \E r \in run.arrived : waitPredicate(old.job, r)
                            /\ run.parsed)
        /\ (Len(executeAwait') < Len(executeAwait) \/ started' # started) =>
             \A k \in 1..Len(executeAwait) :
               ExecuteResume(k) =>
                 /\ \A i \in 1..Len(executeAwait[k].executableJobs) :
                      executeAwait[k].executableJobs[i].state # "pending"
                 /\ lastStep' # "execute.threw"]_vars

\* C10 witness: in one batch a job has failed without its onComplete being called,
\* its sibling has completed, and execute() can go on.
C10_Witness ==
  \E k \in 1..Len(executeAwait) :
    LET batch == executeAwait[k].executableJobs IN
      /\ \E i, j \in 1..Len(batch) :
           /\ batch[i].state = "rejected" /\ ~batch[i].completed
           /\ batch[i].page # NoPage
           /\ batch[j].state = "fulfilled" /\ batch[j].completed
      /\ ENABLED ExecuteResume(k)

\* C11: when a job that has no matcher is run and its page navigates, sees a
\* response before the timeout and the body of the response parses, the sequence
\* of the job ends with onComplete called.
C11_NoMatcherAcceptsAny ==
  [][\A s \in allSequences : \A run \in PageRuns :
       (/\ executeAwait[s[1]].executableJobs[s[2]].job.matcher = Undefined
        /\ run.navigated /\ run.arrived # {} /\ run.parsed
        /\ SettleSequence(s[1], s[2], run)) =>
          executeAwait'[s[1]].executableJobs[s[2]].completed]_vars

\* C12: with M <= N jobs stored by a pool of N >= 1 pages that is not destroyed,
\* no job is in queuedJobs, and the execute() call starts those M jobs, in arrival
\* order, each on a page, all in the first batch; no other batch is started, and
\* when the batch is over jobs is empty.
C12_OneBatchWhenJobsFit ==
  (~isDestroyed /\ Len(pages) >= 1 /\ Cardinality(accepted) <= Len(pages)) =>
    /\ queuedJobs = <<>>
    /\ \A k \in 1..Len(executeAwait) :
         Len(executeAwait[k].executableJobs) = Cardinality(accepted)
    /\ started # <<>> =>
         /\ Len(started) = Cardinality(accepted)
         /\ \A i \in 1..Len(started) :
              /\ started[i].id = nthAccepted(i)
              /\ started[i].batch = 1
              /\ started[i].begun
         /\ executeAwait = <<>> => jobs = <<>>

\* C12 witness: two jobs were stored by a pool of two pages, both were started in
\* the first batch, and the batch is over.
C12_Witness ==
  /\ Len(pages) = 2
  /\ Cardinality(accepted) = 2
  /\ Len(started) = 2
  /\ \A i \in 1..Len(started) : started[i].batch = 1
  /\ executeAwait = <<>>
  /\ queuedJobs = <<>>

\* C13: an execute() call made while the pool is destroyed, jobs is empty or
\* pages is empty starts no job sequence, suspends nothing, calls nothing on a
\* page and leaves pages, jobs, queuedJobs and isDestroyed as they are; the same
\* holds of the execute() call of line 97 when the pool is destroyed.
C13_ExecuteIgnored ==
  [][/\ ((isDestroyed \/ jobs = <<>> \/ pages = <<>>) /\ ExecuteCall) =>
          /\ UNCHANGED <<pages, jobs, queuedJobs, isDestroyed>>
          /\ UNCHANGED <<started, executeAwait, closeCalled, newPageCount>>
          /\ lastStep' = "execute.ignored"
     /\ \A k \in 1..Len(executeAwait) :
          ((isDestroyed \/ pages = <<>>) /\ ExecuteResume(k)) =>
            /\ started' = started
            /\ executeAwait' = RemoveAt(executeAwait, k)
            /\ UNCHANGED <<pages, isDestroyed, closeCalled, newPageCount>>]_vars

\* C13 witness: execute() has just returned at its guard with a job in jobs,
\* because the pool has no page or is destroyed.
C13_Witness ==
  /\ lastStep = "execute.ignored"
  /\ jobs # <<>>
  /\ isDestroyed \/ pages = <<>>
  /\ started = <<>>

\* The job sequences in flight (started and not settled) on page p.
pendingOn(p) ==
  {s \in allSequences :
     /\ executeAwait[s[1]].executableJobs[s[2]].page = p
     /\ executeAwait[s[1]].executableJobs[s[2]].state = "pending"}

\* C14: at most one batch is in flight, a batch is started only when no job
\* sequence of an earlier batch is still running, and no page has two job
\* sequences in flight.
C14_OneBatchInFlight ==
  /\ Len(executeAwait) <= 1
  /\ \A p \in 1..newPageCount : Cardinality(pendingOn(p)) <= 1

\* The jobs whose navigate-and-wait sequence has been begun.
begunIds == {started[i].id : i \in {n \in 1..Len(started) : started[n].begun}}

\* C15: on a pool that is never destroyed, a job addJob has stored is in jobs or
\* in queuedJobs until its sequence has been begun: it never leaves both lists
\* without having been started.
C15_AcceptedJobKeptUntilStarted ==
  ~isDestroyed =>
    \A j \in accepted : j \in ids(jobs) \cup ids(queuedJobs) \cup begunIds

\* The number of job sequences in flight.
pendingCount ==
  Cardinality({s \in allSequences :
                 executeAwait[s[1]].executableJobs[s[2]].state = "pending"})

\* C16: isDestroyed never goes back to false, and a step taken while isDestroyed
\* is true starts no job sequence: the history of started sequences is unchanged,
\* no execute() call is suspended anew and no sequence becomes pending, whichever
\* of the batch settling, execute() resuming and destroy() resuming it is.
C16_NoStartAfterDestroyed ==
  [][isDestroyed =>
       /\ isDestroyed'
       /\ started' = started
       /\ Len(executeAwait') <= Len(executeAwait)
       /\ pendingCount' <= pendingCount]_vars

\* C16 witness: the pool was destroyed while a batch was in flight with a job in
\* queuedJobs; the batch has settled and execute() has just gone on: the job was
\* moved to jobs and has not been started.
C16_Witness ==
  /\ isDestroyed
  /\ lastStep = "execute.returned"
  /\ jobs # <<>>
  /\ ids(jobs) \cap {started[i].id : i \in 1..Len(started)} = {}
  /\ executeAwait = <<>>

\* C17: when a batch starts, the sequence at position i is the one of the job at
\* position i of jobs and issues its response wait and its navigation on the page
\* at position i of pages as they are then (on no page at all, failing at once,
\* when pages has no position i); while the batch is in flight the job and the
\* page of a sequence never change, whatever happens to pages and jobs.
C17_BoundByPosition ==
  [][/\ started' # started =>
          LET batch == executeAwait'[Len(executeAwait')].executableJobs IN
            /\ Len(batch) = Len(jobs')
            /\ \A i \in 1..Len(batch) :
                 /\ batch[i].job = jobs'[i]
                 /\ batch[i].page = IF i <= Len(pages') THEN pages'[i] ELSE NoPage
                 /\ batch[i].page = NoPage => batch[i].state = "rejected"
     /\ (started' = started /\ Len(executeAwait') = Len(executeAwait)) =>
          \A s \in allSequences :
            /\ executeAwait'[s[1]].executableJobs[s[2]].job =
                 executeAwait[s[1]].executableJobs[s[2]].job
            /\ executeAwait'[s[1]].executableJobs[s[2]].page =
                 executeAwait[s[1]].executableJobs[s[2]].page]_vars

\* C17 witness: the sequence at position 2 of a batch is in flight on the page
\* that was at position 2 when the batch started, and pages has been replaced
\* since.
C17_Witness ==
  \E s \in allSequences :
    LET seq == executeAwait[s[1]].executableJobs[s[2]] IN
      /\ s[2] = 2
      /\ seq.state = "pending"
      /\ seq.page # NoPage
      /\ (Len(pages) < 2 \/ pages[2] # seq.page)

\* C18: an addJob call (the step that counts one more job handed over) made
\* while the pool is not destroyed and has a page appends the job at the tail of
\* jobs when jobs is shorter than pages, at the tail of queuedJobs otherwise;
\* it leaves the other list, pages and isDestroyed as they are and starts nothing:
\* no sequence is begun, no call is suspended, no page is acquired or closed.
C18_AddJobAppendsToOne ==
  [][(jobCount' = jobCount + 1 /\ ~isDestroyed /\ pages # <<>>) =>
       /\ \E matcher \in Matchers :
            LET job == [id |-> jobCount + 1, matcher |-> matcher] IN
              IF Len(jobs) < Len(pages)
                THEN jobs' = Append(jobs, job) /\ queuedJobs' = queuedJobs
                ELSE queuedJobs' = Append(queuedJobs, job) /\ jobs' = jobs
       /\ UNCHANGED <<pages, isDestroyed>>
       /\ UNCHANGED <<started, executeAwait, setPagesAwait, destroyAwait>>
       /\ UNCHANGED <<newPageCount, closeCalled, dropped>>]_vars

\* C18 witness: a first job was appended to jobs, which is now as long as pages,
\* the last job handed over was appended to queuedJobs, and nothing has been
\* started.
C18_Witness ==
  /\ ~isDestroyed
  /\ Len(pages) >= 1
  /\ Len(jobs) = Len(pages)
  /\ queuedJobs # <<>>
  /\ queuedJobs[Len(queuedJobs)].id = jobCount
  /\ jobs[Len(jobs)].id < jobCount
  /\ started = <<>>

\* C19: a job waits in queuedJobs only while jobs is full, that is while jobs
\* is as long as pages.
C19_QueueOnlyWhenFull == queuedJobs # <<>> => Len(jobs) = Len(pages)

\* C20: once a destroy() has returned, close has been called on every page the
\* pool has asked ctx.newPage() for.
C20_EveryPageClosed == destroyReturned => (1..newPageCount) \subseteq closeCalled

====
